---- MODULE Spec2Model ----
(***************************************************************************)
(* LOB transfer and LOB part codec of driver/internal/protocol (lob.go,    *)
(* parts.go).                                                              *)
(*                                                                         *)
(* Spec      write direction: LobInDescr.FetchNext / WriteLobDescr.        *)
(*           FetchNext driven chunk by chunk over a finite source.         *)
(* FairSpec  Spec with the fairness of the sequential write loop.          *)
(* SpecCodec encode and decode of ReadLobRequest, WriteLobRequest and      *)
(*           ReadLobReply over the primitive codec.                        *)
(* SpecRead  read direction: request, server reply, decode, offset.        *)
(* SpecParts newGenPartReader over the part kind registry.                 *)
(* SpecWriter the writer's last-error handler over write outcomes.         *)
(***************************************************************************)
EXTENDS Integers, Sequences, FiniteSets, TLC

\* ------------------------------------------------------------------ bounds
MaxSrc == 4
MaxChunk == 3
MaxForced == 2
MaxPayload == 1
MaxDescrs == 2
MaxNumArg == 2
MaxLob == 3
MaxIDs == 2
MaxCalls == 2
MaxWrites == 4

\* longest chunk history the write loop is followed for
MaxRounds == MaxSrc + 2

ByteVals == {97, 98}
LocatorIDs == {1, 300}

SeqsUpTo(S, n) == UNION {[1..k -> S] : k \in 0..n}

Min(a, b) == IF a < b THEN a ELSE b

\* ------------------------------------------------------------- LobOptions
loNullindicator == 1
loDataincluded == 2
loLastdata == 4

HasBit(o, bit) == (o \div bit) % 2 = 1
BitOr(o, bit) == IF HasBit(o, bit) THEN o ELSE o + bit

IsLastData(o) == HasBit(o, loLastdata)
isNull(o) == HasBit(o, loNullindicator)

\* ------------------------------------------------------------- the source
\* An io.Reader over a finite byte sequence.  Once the bytes are used up
\* every Read reports `end`: io.EOF for a complete source,
\* io.ErrUnexpectedEOF for a truncated one, any other error for a failure.
ErrNil == "nil"
ErrEOF == "EOF"
ErrUnexpectedEOF == "ErrUnexpectedEOF"
ErrOther == "ErrOther"
SourceEnds == {ErrEOF, ErrUnexpectedEOF, ErrOther}

\* io.CopyN(dst, src, n): appends up to n bytes of src to dst.  The error is
\* nil exactly when n bytes were written, otherwise what the source reported.
CopyN(buf, r, n) ==
    LET w == Min(n, Len(r.data) - r.pos) IN
    [ buf |-> buf \o SubSeq(r.data, r.pos + 1, r.pos + w),
      rd |-> [r EXCEPT !.pos = r.pos + w],
      written |-> w,
      err |-> IF w = n THEN ErrNil ELSE r.end ]

\* errors.Is(err, io.EOF) || errors.Is(err, io.ErrUnexpectedEOF)
IsEndOfInput(err) == err \in {ErrEOF, ErrUnexpectedEOF}

\* newLobInDescr(rd)
newLobInDescr == [Opt |-> 0, pos |-> 0, buf |-> <<>>]

\* FetchNext without d.buf.Reset(): the new bytes follow the old ones.
LobInDescr_FetchNext_NoReset(d, r, c) ==
    LET cp == CopyN(d.buf, r, c)
        opt == loDataincluded
    IN  IF ~IsEndOfInput(cp.err)
        THEN [ d |-> [d EXCEPT !.buf = cp.buf, !.Opt = opt],
               rd |-> cp.rd, err |-> cp.err, srcErr |-> cp.err ]
        ELSE [ d |-> [d EXCEPT !.buf = cp.buf, !.Opt = BitOr(opt, loLastdata)],
               rd |-> cp.rd, err |-> ErrNil, srcErr |-> cp.err ]

\* FetchNext that takes only io.EOF for the end of the input.
LobInDescr_FetchNext_EofOnly(d, r, c) ==
    LET cp == CopyN(<<>>, r, c)
        opt == loDataincluded
    IN  IF cp.err # ErrEOF
        THEN [ d |-> [d EXCEPT !.buf = cp.buf, !.Opt = opt],
               rd |-> cp.rd, err |-> cp.err, srcErr |-> cp.err ]
        ELSE [ d |-> [d EXCEPT !.buf = cp.buf, !.Opt = BitOr(opt, loLastdata)],
               rd |-> cp.rd, err |-> ErrNil, srcErr |-> cp.err ]

\* FetchNext that swallows the end of the input without d.Opt |= loLastdata.
LobInDescr_FetchNext_NoLast(d, r, c) ==
    LET cp == CopyN(<<>>, r, c)
        opt == loDataincluded
    IN  IF ~IsEndOfInput(cp.err)
        THEN [ d |-> [d EXCEPT !.buf = cp.buf, !.Opt = opt],
               rd |-> cp.rd, err |-> cp.err, srcErr |-> cp.err ]
        ELSE [ d |-> [d EXCEPT !.buf = cp.buf, !.Opt = opt],
               rd |-> cp.rd, err |-> ErrNil, srcErr |-> cp.err ]

\* FetchNext that sets last-data as soon as the source has no byte left.
LobInDescr_FetchNext_Eager(d, r, c) ==
    LET cp == CopyN(<<>>, r, c)
        opt == loDataincluded
        atEnd == cp.rd.pos = Len(cp.rd.data) /\ IsEndOfInput(cp.rd.end)
    IN  IF ~IsEndOfInput(cp.err) /\ ~atEnd
        THEN [ d |-> [d EXCEPT !.buf = cp.buf, !.Opt = opt],
               rd |-> cp.rd, err |-> cp.err, srcErr |-> cp.err ]
        ELSE [ d |-> [d EXCEPT !.buf = cp.buf, !.Opt = BitOr(opt, loLastdata)],
               rd |-> cp.rd, err |-> ErrNil, srcErr |-> cp.err ]

\* (d *LobInDescr) FetchNext(chunkSize): the descriptor, the source and the
\* returned error after the call; srcErr is what io.CopyN returned.
LobInDescr_FetchNext(d, r, c) ==
    LET cp == CopyN(<<>>, r, c)
        opt == loDataincluded
    IN  IF ~IsEndOfInput(cp.err)
        THEN [ d |-> [d EXCEPT !.buf = cp.buf, !.Opt = opt],
               rd |-> cp.rd, err |-> cp.err, srcErr |-> cp.err ]
        ELSE [ d |-> [d EXCEPT !.buf = cp.buf, !.Opt = BitOr(opt, loLastdata)],
               rd |-> cp.rd, err |-> ErrNil, srcErr |-> cp.err ]

\* (d *LobInDescr) size() and writeFirst(enc): the staging buffer as sent.
LobInDescr_size(d) == Len(d.buf)
LobInDescr_writeFirst(d) == d.buf

\* ----------------------------------------------------------- WriteLobDescr
\* A slice that aliases the staging buffer of the previous chunk after the
\* buffer was reset and `new` was written: the first k bytes it shows are
\* the new ones, k depending on where the buffer reallocated.
Overwritten(old, new, k) ==
    [i \in 1..Len(old) |-> IF i <= k /\ i <= Len(new) THEN new[i] ELSE old[i]]

\* FetchNext without d.Opt = d.LobInDescr.Opt
WriteLobDescr_FetchNext_NoOpt(w, d, r, c, k) ==
    LET f == LobInDescr_FetchNext(d, r, c) IN
    IF f.err # ErrNil
    THEN [ w |-> [w EXCEPT !.b = Overwritten(w.b, f.d.buf, k)],
           d |-> f.d, rd |-> f.rd, err |-> f.err, srcErr |-> f.srcErr ]
    ELSE [ w |-> [w EXCEPT !.ofs = -1, !.b = f.d.buf],
           d |-> f.d, rd |-> f.rd, err |-> ErrNil, srcErr |-> f.srcErr ]

\* FetchNext without d.ofs = -1
WriteLobDescr_FetchNext_NoOfs(w, d, r, c, k) ==
    LET f == LobInDescr_FetchNext(d, r, c) IN
    IF f.err # ErrNil
    THEN [ w |-> [w EXCEPT !.b = Overwritten(w.b, f.d.buf, k)],
           d |-> f.d, rd |-> f.rd, err |-> f.err, srcErr |-> f.srcErr ]
    ELSE [ w |-> [w EXCEPT !.Opt = f.d.Opt, !.b = f.d.buf],
           d |-> f.d, rd |-> f.rd, err |-> ErrNil, srcErr |-> f.srcErr ]

\* FetchNext that copies options, offset and bytes before it looks at the
\* error of LobInDescr.FetchNext
WriteLobDescr_FetchNext_CopyFirst(w, d, r, c, k) ==
    LET f == LobInDescr_FetchNext(d, r, c) IN
    [ w |-> [w EXCEPT !.Opt = f.d.Opt, !.ofs = -1, !.b = f.d.buf],
      d |-> f.d, rd |-> f.rd, err |-> f.err, srcErr |-> f.srcErr ]

\* (d *WriteLobDescr) FetchNext(chunkSize); k is the aliasing outcome of the
\* failing path, where d.b keeps pointing into the reused buffer.
WriteLobDescr_FetchNext(w, d, r, c, k) ==
    LET f == LobInDescr_FetchNext(d, r, c) IN
    IF f.err # ErrNil
    THEN [ w |-> [w EXCEPT !.b = Overwritten(w.b, f.d.buf, k)],
           d |-> f.d, rd |-> f.rd, err |-> f.err, srcErr |-> f.srcErr ]
    ELSE [ w |-> [w EXCEPT !.Opt = f.d.Opt, !.ofs = -1, !.b = f.d.buf],
           d |-> f.d, rd |-> f.rd, err |-> ErrNil, srcErr |-> f.srcErr ]

\* ------------------------------------------------------ primitive codec
\* encoding.Encoder / encoding.Decoder: little-endian fixed-width integers,
\* raw byte runs, zero padding and skipping; the decoder latches its first
\* error and then reads nothing more, integers read in error being 0.
\* Integers are two's complement in their field width; the values used stay
\* far below the width, so no field wraps.
RECURSIVE LE(_, _)
LE(v, w) == IF w = 0 THEN <<>> ELSE <<v % 256>> \o LE(v \div 256, w - 1)

RECURSIVE FromLE(_)
FromLE(bs) == IF bs = <<>> THEN 0 ELSE Head(bs) + 256 * FromLE(Tail(bs))

FromLESigned(bs) ==
    IF bs[Len(bs)] >= 128
    THEN -(1 + FromLE([i \in 1..Len(bs) |-> 255 - bs[i]]))
    ELSE FromLE(bs)

Zeroes(n) == [i \in 1..n |-> 0]

Enc_Uint64(v) == LE(v, 8)
Enc_Int64(v) == LE(v, 8)
Enc_Int32(v) == LE(v, 4)
Enc_Int16(v) == LE(v, 2)
Enc_Int8(v) == LE(v, 1)

newDecoder(bytes) == [in |-> bytes, pos |-> 0, err |-> FALSE]

\* io.ReadFull of n bytes through the decoder
Dec_take(dec, n) ==
    IF dec.err THEN [dec |-> dec, bs |-> <<>>, ok |-> FALSE]
    ELSE IF Len(dec.in) - dec.pos >= n
    THEN [ dec |-> [dec EXCEPT !.pos = @ + n],
           bs |-> SubSeq(dec.in, dec.pos + 1, dec.pos + n), ok |-> TRUE ]
    ELSE [ dec |-> [dec EXCEPT !.pos = Len(dec.in), !.err = TRUE],
           bs |-> SubSeq(dec.in, dec.pos + 1, Len(dec.in)), ok |-> FALSE ]

Dec_Unsigned(dec, w) ==
    LET t == Dec_take(dec, w) IN
    [dec |-> t.dec, v |-> IF t.ok THEN FromLE(t.bs) ELSE 0]

Dec_Signed(dec, w) ==
    LET t == Dec_take(dec, w) IN
    [dec |-> t.dec, v |-> IF t.ok THEN FromLESigned(t.bs) ELSE 0]

Dec_Uint64(dec) == Dec_Unsigned(dec, 8)
Dec_Int64(dec) == Dec_Signed(dec, 8)
Dec_Int32(dec) == Dec_Signed(dec, 4)
Dec_Int16(dec) == Dec_Signed(dec, 2)
Dec_Int8(dec) == Dec_Signed(dec, 1)
Dec_Skip(dec, n) == [dec |-> Dec_take(dec, n).dec]

\* dec.Bytes(p): fills p; a short read fills the front of p only
Dec_Bytes(dec, p) ==
    LET t == Dec_take(dec, Len(p)) IN
    [ dec |-> t.dec,
      v |-> [i \in 1..Len(p) |-> IF i <= Len(t.bs) THEN t.bs[i] ELSE p[i]] ]

\* --------------------------------------------------- WriteLobDescr codec
writeLobRequestSize == 21

\* decode that reads the payload length as a 16 bit integer
WriteLobDescr_decode_Int16(dec) ==
    LET id == Dec_Uint64(dec)
        opt == Dec_Int8(id.dec)
        ofs == Dec_Int64(opt.dec)
        size == Dec_Int16(ofs.dec)
    IN  IF size.v < 0
        THEN [d |-> [ID |-> id.v, Opt |-> opt.v, ofs |-> ofs.v, b |-> <<>>],
              dec |-> size.dec, err |-> "panic"]
        ELSE LET b == Dec_Bytes(size.dec, Zeroes(size.v)) IN
             [d |-> [ID |-> id.v, Opt |-> opt.v, ofs |-> ofs.v, b |-> b.v],
              dec |-> b.dec, err |-> ErrNil]

\* (d *WriteLobDescr) decode(dec); make([]byte, size) panics on size < 0
WriteLobDescr_decode(dec) ==
    LET id == Dec_Uint64(dec)
        opt == Dec_Int8(id.dec)
        ofs == Dec_Int64(opt.dec)
        size == Dec_Int32(ofs.dec)
    IN  IF size.v < 0
        THEN [d |-> [ID |-> id.v, Opt |-> opt.v, ofs |-> ofs.v, b |-> <<>>],
              dec |-> size.dec, err |-> "panic"]
        ELSE LET b == Dec_Bytes(size.dec, Zeroes(size.v)) IN
             [d |-> [ID |-> id.v, Opt |-> opt.v, ofs |-> ofs.v, b |-> b.v],
              dec |-> b.dec, err |-> ErrNil]

\* encode that leaves the payload length field out
WriteLobDescr_encode_NoLen(d) ==
    Enc_Uint64(d.ID) \o Enc_Int8(d.Opt) \o Enc_Int64(d.ofs) \o d.b

\* (d *WriteLobDescr) encode(enc): the bytes written
WriteLobDescr_encode(d) ==
    Enc_Uint64(d.ID) \o Enc_Int8(d.Opt) \o Enc_Int64(d.ofs)
        \o Enc_Int32(Len(d.b)) \o d.b

\* -------------------------------------------------------- WriteLobRequest
\* (r *WriteLobRequest) size()
RECURSIVE WriteLobRequest_size(_)
WriteLobRequest_size(r) ==
    IF r.Descrs = <<>> THEN 0
    ELSE (writeLobRequestSize + Len(Head(r.Descrs).b))
             + WriteLobRequest_size([Descrs |-> Tail(r.Descrs)])

\* (r *WriteLobRequest) numArg()
WriteLobRequest_numArg(r) == Len(r.Descrs)

\* (r *WriteLobRequest) encode(enc)
RECURSIVE WriteLobRequest_encode(_)
WriteLobRequest_encode(r) ==
    IF r.Descrs = <<>> THEN <<>>
    ELSE WriteLobDescr_encode(Head(r.Descrs))
             \o WriteLobRequest_encode([Descrs |-> Tail(r.Descrs)])

\* (r *WriteLobRequest) decodeNumArg(dec, numArg): descriptor by descriptor
RECURSIVE WriteLobRequest_decodeNumArg(_, _)
WriteLobRequest_decodeNumArg(dec, numArg) ==
    IF numArg <= 0 THEN [r |-> [Descrs |-> <<>>], dec |-> dec, err |-> ErrNil]
    ELSE LET h == WriteLobDescr_decode(dec) IN
         IF h.err # ErrNil
         THEN [r |-> [Descrs |-> <<h.d>>], dec |-> h.dec, err |-> h.err]
         ELSE LET t == WriteLobRequest_decodeNumArg(h.dec, numArg - 1) IN
              [r |-> [Descrs |-> <<h.d>> \o t.r.Descrs], dec |-> t.dec, err |-> t.err]

\* --------------------------------------------------------- ReadLobRequest
readLobRequestSize == 24

\* (ReadLobRequest) size() and numArg()
ReadLobRequest_size(r) == readLobRequestSize
ReadLobRequest_numArg(r) == 1

\* (r *ReadLobRequest) decode(dec)
ReadLobRequest_decode(dec) ==
    LET id == Dec_Uint64(dec)
        ofs == Dec_Int64(id.dec)
        cs == Dec_Int32(ofs.dec)
        sk == Dec_Skip(cs.dec, 4)
    IN  [r |-> [ID |-> id.v, Ofs |-> ofs.v, ChunkSize |-> cs.v],
         dec |-> sk.dec, err |-> ErrNil]

\* encode that writes the 0-based offset as it is
ReadLobRequest_encode_ZeroBased(r) ==
    Enc_Uint64(r.ID) \o Enc_Int64(r.Ofs) \o Enc_Int32(r.ChunkSize) \o Zeroes(4)

\* (r *ReadLobRequest) encode(enc): the offset goes out 1-based
ReadLobRequest_encode(r) ==
    Enc_Uint64(r.ID) \o Enc_Int64(r.Ofs + 1) \o Enc_Int32(r.ChunkSize)
        \o Zeroes(4)

\* ----------------------------------------------------------- ReadLobReply
\* slices.Grow(b, size)[:size]: what b held stays, the rest is new
GrowTo(b, size) == [i \in 1..size |-> IF i <= Len(b) THEN b[i] ELSE 0]

\* decodeNumArg that accepts any count and reads the first entry
ReadLobReply_decodeNumArg_AnyCount(r, dec, numArg) ==
    LET id == Dec_Uint64(dec)
        opt == Dec_Int8(id.dec)
        size == Dec_Int32(opt.dec)
        sk == Dec_Skip(size.dec, 3)
    IN  IF size.v < 0
        THEN [r |-> [r EXCEPT !.ID = id.v, !.Opt = opt.v],
              dec |-> sk.dec, err |-> "panic"]
        ELSE LET b == Dec_Bytes(sk.dec, GrowTo(r.B, size.v)) IN
             [r |-> [ID |-> id.v, Opt |-> opt.v, B |-> b.v],
              dec |-> b.dec, err |-> ErrNil]

\* (r *ReadLobReply) decodeNumArg(dec, numArg): panics unless numArg = 1
ReadLobReply_decodeNumArg(r, dec, numArg) ==
    IF numArg # 1 THEN [r |-> r, dec |-> dec, err |-> "panic"]
    ELSE
    LET id == Dec_Uint64(dec)
        opt == Dec_Int8(id.dec)
        size == Dec_Int32(opt.dec)
        sk == Dec_Skip(size.dec, 3)
    IN  IF size.v < 0
        THEN [r |-> [r EXCEPT !.ID = id.v, !.Opt = opt.v],
              dec |-> sk.dec, err |-> "panic"]
        ELSE LET b == Dec_Bytes(sk.dec, GrowTo(r.B, size.v)) IN
             [r |-> [ID |-> id.v, Opt |-> opt.v, B |-> b.v],
              dec |-> b.dec, err |-> ErrNil]

\* The bytes of one read-LOB reply entry as the server sends them: id,
\* options, length, three bytes of padding, the payload.
ReplyEntryWire(e) ==
    Enc_Uint64(e.ID) \o Enc_Int8(e.Opt) \o Enc_Int32(Len(e.B)) \o Zeroes(3) \o e.B

\* ---------------------------------------------------------- WriteLobReply
\* dec.Error(): the error the decoder latched, nil when none
Dec_Error(dec) == IF dec.err THEN ErrUnexpectedEOF ELSE ErrNil

\* resizeSlice(s, n): s at length n, what it held kept up to n
resizeSlice(ids, n) == [i \in 1..n |-> IF i <= Len(ids) THEN ids[i] ELSE 0]

\* n locator ids read one after the other
RECURSIVE Dec_LocatorIDs(_, _)
Dec_LocatorIDs(dec, n) ==
    IF n <= 0 THEN [dec |-> dec, vs |-> <<>>]
    ELSE LET h == Dec_Uint64(dec)
             t == Dec_LocatorIDs(h.dec, n - 1)
         IN  [dec |-> t.dec, vs |-> <<h.v>> \o t.vs]

\* decodeNumArg that appends the ids read to the ids the reply holds
WriteLobReply_decodeNumArg_Append(r, dec, numArg) ==
    LET rd == Dec_LocatorIDs(dec, numArg) IN
    [r |-> [IDs |-> r.IDs \o rd.vs], dec |-> rd.dec, err |-> Dec_Error(rd.dec)]

\* (r *WriteLobReply) decodeNumArg(dec, numArg)
WriteLobReply_decodeNumArg(r, dec, numArg) ==
    LET ids == resizeSlice(r.IDs, numArg)
        rd == Dec_LocatorIDs(dec, numArg)
    IN  [r |-> [IDs |-> [i \in 1..Len(ids) |->
                            IF i <= Len(rd.vs) THEN rd.vs[i] ELSE ids[i]]],
         dec |-> rd.dec, err |-> Dec_Error(rd.dec)]

\* the bytes of the locator ids of a write-LOB reply as the server sends them
RECURSIVE LocatorIDsWire(_)
LocatorIDsWire(ids) ==
    IF ids = <<>> THEN <<>> ELSE Enc_Uint64(Head(ids)) \o LocatorIDsWire(Tail(ids))

\* ------------------------------------------------------------------ state
VARIABLES
    rd,         \* the source: [data, pos, end]
    chunkSize,  \* the chunk size of the transfer
    inDescr,    \* LobInDescr: [Opt, pos, buf]
    wDescr,     \* WriteLobDescr: [ID, Opt, ofs, b]
    chunks,     \* chunks sent so far: <<[b, opt]>>
    ret,        \* result of the last FetchNext, "none" before the first
    srcErr,     \* what the source reported to the last FetchNext
    forced,     \* FetchNext calls made after last-data was produced
    \* part codec
    part,       \* the part under the codec: [kind, v] (and the server's entries)
    wire,       \* the bytes encode wrote, or the server sent
    out,        \* the last decode: [v, dec, err, numArg, cut]
    step,       \* "init", "encoded", "decoded"
    \* read direction
    lob,        \* the LOB value the server holds
    rofs,       \* the 0-based offset the read loop tracks
    reqWires,   \* the bytes of every ReadLobRequest sent
    served,     \* the chunks the server sent
    inflight,   \* the bytes of the reply on its way, <<>> when none
    reply,      \* the ReadLobReply the loop decodes into
    received,   \* reply.B after every decode
    assembled,  \* the bytes assembled so far
    rstate,     \* "idle", "sent", "replied", "done"
    \* part kind registry
    heap,       \* the parts allocated so far: <<[type, val]>>, address = index
    calls,      \* the newGenPartReader calls made: <<[kind, res]>>
    decodedInto,\* the calls whose part was decoded into since
    \* message writer
    lastWriteErr,   \* writer.lastWriteErr
    outcomes,       \* the write outcomes handed to lastErrorHandler
    handled         \* what lastErrorHandler returned for each

writeVars == <<rd, chunkSize, inDescr, wDescr, chunks, ret, srcErr, forced>>
codecVars == <<part, wire, out, step>>
readVars == <<lob, rofs, reqWires, served, inflight, reply, received, assembled, rstate>>
partsVars == <<heap, calls, decodedInto>>
writerVars == <<lastWriteErr, outcomes, handled>>
vars == <<writeVars, codecVars, readVars, partsVars, writerVars>>

\* the parts of the state a specification does not use
WriteIdle ==
    /\ rd = [data |-> <<>>, pos |-> 0, end |-> ErrEOF]
    /\ chunkSize = 1
    /\ inDescr = newLobInDescr
    /\ wDescr = [ID |-> 0, Opt |-> 0, ofs |-> 0, b |-> <<>>]
    /\ chunks = <<>>
    /\ ret = "none"
    /\ srcErr = "none"
    /\ forced = 0

CodecIdle ==
    /\ part = [kind |-> "none"]
    /\ wire = <<>>
    /\ out = [err |-> "none"]
    /\ step = "init"

PartsIdle ==
    /\ heap = <<>>
    /\ calls = <<>>
    /\ decodedInto = {}

WriterIdle ==
    /\ lastWriteErr = ErrNil
    /\ outcomes = <<>>
    /\ handled = <<>>

ReadIdle ==
    /\ lob = <<>>
    /\ rofs = 0
    /\ reqWires = <<>>
    /\ served = <<>>
    /\ inflight = <<>>
    /\ reply = [ID |-> 0, Opt |-> 0, B |-> <<>>]
    /\ received = <<>>
    /\ assembled = <<>>
    /\ rstate = "idle"

Init ==
    /\ \E data \in SeqsUpTo(ByteVals, MaxSrc), e \in SourceEnds :
           rd = [data |-> data, pos |-> 0, end |-> e]
    /\ chunkSize \in 1..MaxChunk
    /\ inDescr = newLobInDescr
    /\ \E id \in LocatorIDs : wDescr = [ID |-> id, Opt |-> 0, ofs |-> 0, b |-> <<>>]
    /\ chunks = <<>>
    /\ ret = "none"
    /\ srcErr = "none"
    /\ forced = 0
    /\ CodecIdle
    /\ ReadIdle
    /\ PartsIdle
    /\ WriterIdle

\* The first chunk: LobInDescr.FetchNext, the bytes embedded in the
\* initiating request by writeFirst.
FetchFirst ==
    /\ ret = "none"
    /\ LET f == LobInDescr_FetchNext(inDescr, rd, chunkSize) IN
       /\ inDescr' = f.d
       /\ rd' = f.rd
       /\ ret' = f.err
       /\ srcErr' = f.srcErr
       /\ chunks' = IF f.err = ErrNil
                    THEN <<[b |-> LobInDescr_writeFirst(f.d), opt |-> f.d.Opt]>>
                    ELSE chunks
    /\ UNCHANGED <<chunkSize, wDescr, forced, codecVars, readVars, partsVars, writerVars>>

\* One WriteLobDescr.FetchNext call and what it leaves behind.
CallFetchNext ==
    \E k \in 0..chunkSize :
       LET f == WriteLobDescr_FetchNext(wDescr, inDescr, rd, chunkSize, k) IN
       /\ wDescr' = f.w
       /\ inDescr' = f.d
       /\ rd' = f.rd
       /\ ret' = f.err
       /\ srcErr' = f.srcErr
       /\ chunks' = IF f.err = ErrNil
                    THEN Append(chunks, [b |-> f.w.b, opt |-> f.w.Opt])
                    ELSE chunks

\* A further round of the write loop: the previous chunk carried no
\* last-data.
FetchLoop ==
    /\ ret = ErrNil
    /\ ~IsLastData(inDescr.Opt)
    /\ Len(chunks) < MaxRounds
    /\ CallFetchNext
    /\ UNCHANGED <<chunkSize, forced, codecVars, readVars, partsVars, writerVars>>

\* The write reply still lists the locator id although last-data was sent.
FetchForced ==
    /\ ret = ErrNil
    /\ IsLastData(inDescr.Opt)
    /\ forced < MaxForced
    /\ Len(chunks) < MaxRounds + MaxForced
    /\ CallFetchNext
    /\ forced' = forced + 1
    /\ UNCHANGED <<chunkSize, codecVars, readVars, partsVars, writerVars>>

Next == FetchFirst \/ FetchLoop \/ FetchForced

Spec == Init /\ [][Next]_vars

FairSpec == Spec /\ WF_vars(FetchFirst) /\ WF_vars(FetchLoop)

\* ============================================================ write loop
RECURSIVE Concat(_)
Concat(ss) == IF ss = <<>> THEN <<>> ELSE Head(ss) \o Concat(Tail(ss))

\* a finite source that reads without error
ErrorFree == rd.end = ErrEOF

\* the chunks of the write loop itself, the forced ones left out
LoopChunks == SubSeq(chunks, 1, Len(chunks) - forced)

\* the write loop has ended: the chunk fetched last carries last-data
LoopDone == ret = ErrNil /\ chunks # <<>> /\ IsLastData(inDescr.Opt)

CeilDiv(a, b) == (a + b - 1) \div b

\* C1 (as stated): over an error-free source of S bytes the loop that ends
\* with the first last-data chunk produces ceil(S / C) chunks, 1 when S = 0,
\* also when S is a positive multiple of C.
C1_ChunkCountIsCeil ==
    (ErrorFree /\ LoopDone) =>
        Len(LoopChunks) = IF Len(rd.data) = 0 THEN 1
                          ELSE CeilDiv(Len(rd.data), chunkSize)

\* C1 (amended): the loop produces floor(S / C) + 1 chunks: ceil(S / C) when
\* C does not divide S, 1 when S = 0, and S / C + 1 when S is a positive
\* multiple of C, the final chunk then being empty.
C1_ChunkCount ==
    (ErrorFree /\ LoopDone) =>
        /\ Len(LoopChunks) = (Len(rd.data) \div chunkSize) + 1
        /\ Len(rd.data) % chunkSize # 0 =>
               Len(LoopChunks) = CeilDiv(Len(rd.data), chunkSize)
        /\ Len(rd.data) = 0 => Len(LoopChunks) = 1
        /\ (Len(rd.data) > 0 /\ Len(rd.data) % chunkSize = 0) =>
               LoopChunks[Len(LoopChunks)].b = <<>>

\* the loop ended over a source whose size is a positive multiple of C
C1_Witness ==
    /\ ErrorFree /\ LoopDone /\ forced = 0
    /\ Len(rd.data) = 2 * chunkSize
    /\ Len(chunks) = 3

\* C2: over an error-free source the write loop terminates, and of the
\* chunks it produces the final one carries last-data and no earlier one.
C2_LoopTerminates ==
    /\ [](ErrorFree => <>LoopDone)
    /\ [](ErrorFree =>
            /\ \A i \in 1..Len(LoopChunks) :
                   IsLastData(LoopChunks[i].opt) => i = Len(LoopChunks)
            /\ LoopDone => IsLastData(LoopChunks[Len(LoopChunks)].opt))

\* the loop ended after three chunks
C2_Witness ==
    ErrorFree /\ LoopDone /\ forced = 0 /\ Len(chunks) = 3

\* C3: over an error-free source the k-th chunk is exactly the next
\* min(C, remaining) source bytes, the staging buffer holds that chunk and
\* nothing older, and the chunks up to the first last-data one concatenate
\* to the source.
C3_ChunksAreSource ==
    ErrorFree =>
        /\ \A k \in 1..Len(chunks) :
               chunks[k].b = SubSeq(rd.data, (k - 1) * chunkSize + 1,
                                    Min(k * chunkSize, Len(rd.data)))
        /\ (ret = ErrNil /\ chunks # <<>>) =>
               /\ inDescr.buf = chunks[Len(chunks)].b
               /\ LobInDescr_size(inDescr) = Len(chunks[Len(chunks)].b)
        /\ LoopDone =>
               Concat([i \in 1..Len(LoopChunks) |-> LoopChunks[i].b]) = rd.data

\* a source of differing bytes went out in two non-empty chunks
C3_Witness ==
    /\ ErrorFree /\ LoopDone /\ forced = 0
    /\ Len(chunks) = 2
    /\ chunks[1].b # <<>> /\ chunks[2].b # <<>>
    /\ rd.data[1] # rd.data[Len(rd.data)]

\* C4: after every FetchNext the options are exactly data-included when the
\* source did not report the end of the input, and data-included plus
\* last-data when it did (io.EOF or io.ErrUnexpectedEOF), the call then
\* returning nil; the null-indicator bit is never set.
C4_OptionsAfterFetch ==
    ret # "none" =>
        /\ ~IsEndOfInput(srcErr) => inDescr.Opt = loDataincluded
        /\ IsEndOfInput(srcErr) =>
               inDescr.Opt = loDataincluded + loLastdata /\ ret = ErrNil
        /\ ~isNull(inDescr.Opt)

\* a second call met io.ErrUnexpectedEOF with the options at data-included
C4_Witness ==
    /\ srcErr = ErrUnexpectedEOF
    /\ Len(chunks) = 2
    /\ chunks[1].opt = loDataincluded
    /\ inDescr.Opt = loDataincluded + loLastdata

\* C5: once a FetchNext has produced last-data, every further FetchNext on
\* the descriptor returns nil with an empty chunk whose options are
\* data-included plus last-data.
C5_AfterLastData ==
    [][(ret = ErrNil /\ IsLastData(inDescr.Opt)) =>
          /\ ret' = ErrNil
          /\ inDescr'.buf = <<>>
          /\ inDescr'.Opt = loDataincluded + loLastdata
          /\ wDescr'.b = <<>>
          /\ wDescr'.Opt = loDataincluded + loLastdata
          /\ wDescr'.ofs = -1]_vars

\* two forced calls were made after a non-empty last chunk
C5_Witness ==
    /\ forced = 2
    /\ Len(chunks) >= 3
    /\ chunks[Len(chunks) - 2].b # <<>>
    /\ IsLastData(chunks[Len(chunks) - 2].opt)
    /\ chunks[Len(chunks)].b = <<>>

\* C14: after every successful WriteLobDescr.FetchNext the descriptor's
\* offset is -1, its options are those of its LobInDescr, its payload is the
\* staging buffer, and its locator id is what it was.
C14_DescrAfterFetch ==
    [][(ret # "none" /\ ret' = ErrNil) =>
          /\ wDescr'.ofs = -1
          /\ wDescr'.Opt = inDescr'.Opt
          /\ wDescr'.b = inDescr'.buf
          /\ wDescr'.ID = wDescr.ID]_vars

\* a WriteLobDescr.FetchNext brought a non-empty chunk without last-data
C14_Witness ==
    /\ ret = ErrNil /\ Len(chunks) = 2
    /\ wDescr.ofs = -1 /\ wDescr.ID = 300
    /\ wDescr.Opt = loDataincluded
    /\ wDescr.b # <<>> /\ wDescr.b = inDescr.buf

\* C16: when the source fails with an error that is not the end of the
\* input during WriteLobDescr.FetchNext, the call returns that error, the
\* LobInDescr options are exactly data-included, and the locator id, options
\* and offset of the WriteLobDescr are what they were before the call.
C16_FetchError ==
    [][(ret # "none" /\ srcErr' = ErrOther) =>
          /\ ret' = ErrOther
          /\ inDescr'.Opt = loDataincluded
          /\ ~IsLastData(inDescr'.Opt)
          /\ wDescr'.ID = wDescr.ID
          /\ wDescr'.Opt = wDescr.Opt
          /\ wDescr'.ofs = wDescr.ofs]_vars

\* the first WriteLobDescr.FetchNext of a transfer failed after reading a
\* byte: the descriptor still has the options and offset it was made with
C16_Witness ==
    /\ ret = ErrOther /\ srcErr = ErrOther
    /\ Len(chunks) = 1
    /\ inDescr.buf # <<>>
    /\ inDescr.Opt = loDataincluded
    /\ wDescr.Opt = 0 /\ wDescr.ofs = 0

\* ============================================================ part codec
Offsets == {0, 4, 255}
ChunkSizes == {1, 4, 300}
Payloads == SeqsUpTo(ByteVals, MaxPayload)
Cuts == {0, 1, 14}

ReadLobRequests ==
    {[ID |-> id, Ofs |-> o, ChunkSize |-> c] :
        id \in LocatorIDs, o \in Offsets, c \in ChunkSizes}

\* descriptors with every combination of the three option bits
Descrs ==
    {[ID |-> id, Opt |-> o, ofs |-> f, b |-> b] :
        id \in LocatorIDs, o \in 0..7, f \in {-1, 0}, b \in Payloads}

\* descriptors as WriteLobDescr.FetchNext leaves them
LoopDescrs ==
    {[ID |-> 300, Opt |-> o, ofs |-> -1, b |-> b] :
        o \in {loDataincluded, loDataincluded + loLastdata}, b \in Payloads}

WriteLobRequests ==
    {[Descrs |-> <<>>]} \cup
    {[Descrs |-> <<d>> \o t] : d \in Descrs, t \in SeqsUpTo(LoopDescrs, MaxDescrs - 1)}

ReplyEntries ==
    {[ID |-> id, Opt |-> o, B |-> b] :
        id \in LocatorIDs, o \in {loDataincluded, loDataincluded + loLastdata},
        b \in Payloads}

\* a reply object as constructed, and one that was decoded into before
PriorReplies ==
    {[ID |-> 0, Opt |-> 0, B |-> <<>>], [ID |-> 7, Opt |-> loDataincluded, B |-> <<98, 98>>]}

\* the ids a WriteLobReply holds before a decode: none, or those of an
\* earlier, longer reply
PriorIDs == {<<>>, <<9, 9, 9>>}

\* what arrives of w when the last cut bytes are lost
Received(w, cut) == SubSeq(w, 1, Len(w) - Min(cut, Len(w)))

InitCodec ==
    /\ WriteIdle
    /\ ReadIdle
    /\ PartsIdle
    /\ WriterIdle
    /\ out = [err |-> "none"]
    /\ \/ /\ \E r \in ReadLobRequests : part = [kind |-> "ReadLobRequest", v |-> r]
          /\ wire = <<>>
          /\ step = "init"
       \/ /\ \E r \in WriteLobRequests : part = [kind |-> "WriteLobRequest", v |-> r]
          /\ wire = <<>>
          /\ step = "init"
       \/ \E r \in PriorReplies, e \in ReplyEntries, more \in BOOLEAN :
             LET es == IF more THEN <<e, [ID |-> 1, Opt |-> 6, B |-> <<97>>]>>
                       ELSE <<e>>
             IN  /\ part = [kind |-> "ReadLobReply", v |-> r, entries |-> es]
                 /\ wire = Concat([i \in 1..Len(es) |-> ReplyEntryWire(es[i])])
                 /\ step = "encoded"
       \/ \E r \in PriorIDs, ids \in SeqsUpTo(LocatorIDs, MaxIDs) :
             /\ part = [kind |-> "WriteLobReply", v |-> [IDs |-> r], ids |-> ids]
             /\ wire = LocatorIDsWire(ids)
             /\ step = "encoded"

EncodeReadLobRequest ==
    /\ step = "init"
    /\ part.kind = "ReadLobRequest"
    /\ wire' = ReadLobRequest_encode(part.v)
    /\ step' = "encoded"
    /\ UNCHANGED <<part, out, writeVars, readVars, partsVars, writerVars>>

DecodeReadLobRequest ==
    /\ step = "encoded"
    /\ part.kind = "ReadLobRequest"
    /\ \E cut \in Cuts :
          LET d == ReadLobRequest_decode(newDecoder(Received(wire, cut))) IN
          out' = [v |-> d.r, dec |-> d.dec, err |-> d.err, numArg |-> 1, cut |-> cut]
    /\ step' = "decoded"
    /\ UNCHANGED <<part, wire, writeVars, readVars, partsVars, writerVars>>

EncodeWriteLobRequest ==
    /\ step = "init"
    /\ part.kind = "WriteLobRequest"
    /\ wire' = WriteLobRequest_encode(part.v)
    /\ step' = "encoded"
    /\ UNCHANGED <<part, out, writeVars, readVars, partsVars, writerVars>>

\* the part header carries numArg() as the count
DecodeWriteLobRequest ==
    /\ step = "encoded"
    /\ part.kind = "WriteLobRequest"
    /\ \E cut \in Cuts :
          LET n == WriteLobRequest_numArg(part.v)
              d == WriteLobRequest_decodeNumArg(newDecoder(Received(wire, cut)), n)
          IN  out' = [v |-> d.r, dec |-> d.dec, err |-> d.err, numArg |-> n, cut |-> cut]
    /\ step' = "decoded"
    /\ UNCHANGED <<part, wire, writeVars, readVars, partsVars, writerVars>>

DecodeReadLobReply ==
    /\ step = "encoded"
    /\ part.kind = "ReadLobReply"
    /\ \E n \in 0..MaxNumArg, cut \in Cuts :
          LET d == ReadLobReply_decodeNumArg(part.v, newDecoder(Received(wire, cut)), n)
          IN  out' = [v |-> d.r, dec |-> d.dec, err |-> d.err, numArg |-> n, cut |-> cut]
    /\ step' = "decoded"
    /\ UNCHANGED <<part, wire, writeVars, readVars, partsVars, writerVars>>

\* the part header carries the number of ids as the count
DecodeWriteLobReply ==
    /\ step = "encoded"
    /\ part.kind = "WriteLobReply"
    /\ \E cut \in Cuts :
          LET n == Len(part.ids)
              d == WriteLobReply_decodeNumArg(part.v, newDecoder(Received(wire, cut)), n)
          IN  out' = [v |-> d.r, dec |-> d.dec, err |-> d.err, numArg |-> n, cut |-> cut]
    /\ step' = "decoded"
    /\ UNCHANGED <<part, wire, writeVars, readVars, partsVars, writerVars>>

NextCodec ==
    \/ EncodeReadLobRequest
    \/ DecodeReadLobRequest
    \/ EncodeWriteLobRequest
    \/ DecodeWriteLobRequest
    \/ DecodeReadLobReply
    \/ DecodeWriteLobReply

SpecCodec == InitCodec /\ [][NextCodec]_vars

\* C6: decoding the bytes ReadLobRequest.encode wrote gives back the
\* request: the same locator id, 0-based offset and chunk size.
C6_ReadLobRequestRoundTrip ==
    (step = "decoded" /\ part.kind = "ReadLobRequest" /\ out.cut = 0) =>
        /\ out.v.ID = part.v.ID
        /\ out.v.Ofs = part.v.Ofs
        /\ out.v.ChunkSize = part.v.ChunkSize

\* C7: decodeNumArg with numArg() over the bytes WriteLobRequest.encode
\* wrote gives the same number of descriptors in the same order, each with
\* the same locator id, options, offset and payload.
C7_WriteLobRequestRoundTrip ==
    (step = "decoded" /\ part.kind = "WriteLobRequest" /\ out.cut = 0) =>
        /\ out.err = ErrNil
        /\ out.numArg = Len(part.v.Descrs)
        /\ Len(out.v.Descrs) = Len(part.v.Descrs)
        /\ \A i \in 1..Len(part.v.Descrs) :
               /\ out.v.Descrs[i].ID = part.v.Descrs[i].ID
               /\ out.v.Descrs[i].Opt = part.v.Descrs[i].Opt
               /\ out.v.Descrs[i].ofs = part.v.Descrs[i].ofs
               /\ out.v.Descrs[i].b = part.v.Descrs[i].b

\* two descriptors came back, the first with all option bits and no payload
C7_Witness ==
    /\ step = "decoded" /\ part.kind = "WriteLobRequest" /\ out.cut = 0
    /\ Len(out.v.Descrs) = 2
    /\ out.v.Descrs[1].Opt = 7 /\ out.v.Descrs[1].b = <<>>
    /\ out.v.Descrs[1].ID # out.v.Descrs[2].ID
    /\ out.v.Descrs[2].b # <<>>

RECURSIVE PayloadBytes(_)
PayloadBytes(ds) == IF ds = <<>> THEN 0 ELSE Len(Head(ds).b) + PayloadBytes(Tail(ds))

\* C8: WriteLobRequest.encode writes size() bytes, 21 plus the payload
\* length for every descriptor, and ReadLobRequest.encode writes
\* size() = 24 bytes.
C8_EncodedSize ==
    /\ (step # "init" /\ part.kind = "WriteLobRequest") =>
           /\ Len(wire) = WriteLobRequest_size(part.v)
           /\ WriteLobRequest_size(part.v)
                  = 21 * Len(part.v.Descrs) + PayloadBytes(part.v.Descrs)
    /\ (step # "init" /\ part.kind = "ReadLobRequest") =>
           /\ Len(wire) = ReadLobRequest_size(part.v)
           /\ ReadLobRequest_size(part.v) = 24

\* a request of two descriptors, one with and one without payload, encoded
C8_Witness ==
    /\ step = "encoded" /\ part.kind = "WriteLobRequest"
    /\ Len(part.v.Descrs) = 2
    /\ part.v.Descrs[1].b = <<>> /\ part.v.Descrs[2].b # <<>>
    /\ Len(wire) = 43

\* C10: ReadLobReply.decodeNumArg with a count other than 1 does not
\* complete, reads nothing and leaves id, options and bytes as they were;
\* with count 1 it decodes exactly the first entry.
C10_ReplyCount ==
    (step = "decoded" /\ part.kind = "ReadLobReply") =>
        /\ out.numArg # 1 =>
               /\ out.err # ErrNil
               /\ out.dec.pos = 0 /\ ~out.dec.err
               /\ out.v = part.v
        /\ (out.numArg = 1 /\ out.cut = 0) =>
               /\ out.err = ErrNil
               /\ out.v = part.entries[1]
               /\ out.dec.pos = Len(ReplyEntryWire(part.entries[1]))
               /\ ~out.dec.err

\* a count of 2 over two entries, on a reply that held data before
C10_Witness ==
    /\ step = "decoded" /\ part.kind = "ReadLobReply"
    /\ out.numArg = 2 /\ Len(part.entries) = 2 /\ out.cut = 0
    /\ part.v.B # <<>>
    /\ out.err = "panic"


\* C13: every LOB decode entry point (ReadLobReply.decodeNumArg,
\* WriteLobReply.decodeNumArg, WriteLobRequest.decodeNumArg,
\* ReadLobRequest.decode) returns a failure when the decoder latched an
\* error while the part was decoded.
C13_DecodeErrorSurfaces ==
    (step = "decoded" /\ out.dec.err) => out.err # ErrNil

\* C15: WriteLobReply.decodeNumArg with count n leaves the reply holding
\* exactly the n locator ids of the wire, in wire order, whatever ids it
\* held before; none for n = 0.
C15_ReplyIDs ==
    (step = "decoded" /\ part.kind = "WriteLobReply" /\ out.cut = 0) =>
        /\ out.err = ErrNil
        /\ Len(out.v.IDs) = out.numArg
        /\ out.v.IDs = part.ids
        /\ out.numArg = 0 => out.v.IDs = <<>>

\* a reply that held three ids decoded two other ones
C15_Witness ==
    /\ step = "decoded" /\ part.kind = "WriteLobReply" /\ out.cut = 0
    /\ Len(part.v.IDs) = 3
    /\ out.v.IDs = <<300, 1>>

\* ======================================================== read direction
\* The read loop of the session: one ReadLobRequest per round, the offset
\* advanced by the bytes of each ReadLobReply, until last-data.
Max(a, b) == IF a > b THEN a ELSE b

\* the offset and chunk size fields of a request on the wire
WireOfs(w) == FromLESigned(SubSeq(w, 9, 16))
WireChunkSize(w) == FromLESigned(SubSeq(w, 17, 20))

InitRead ==
    /\ WriteIdle
    /\ CodecIdle
    /\ PartsIdle
    /\ WriterIdle
    /\ lob \in SeqsUpTo(ByteVals, MaxLob)
    /\ rofs = 0
    /\ reqWires = <<>>
    /\ served = <<>>
    /\ inflight = <<>>
    /\ \E id \in LocatorIDs : reply = [ID |-> id, Opt |-> 0, B |-> <<>>]
    /\ received = <<>>
    /\ assembled = <<>>
    /\ rstate = "idle"

SendReadLobRequest ==
    /\ rstate = "idle"
    /\ \E c \in 1..MaxChunk :
          reqWires' = Append(reqWires,
              ReadLobRequest_encode([ID |-> reply.ID, Ofs |-> rofs, ChunkSize |-> c]))
    /\ rstate' = "sent"
    /\ UNCHANGED <<lob, rofs, served, inflight, reply, received, assembled,
                   writeVars, codecVars, partsVars, writerVars>>

\* The server answers the request on the wire with some of the bytes from
\* its 1-based offset on, at least one while any is left, and sets
\* last-data when the chunk reaches the end of the value.
ServerReadLobReply ==
    /\ rstate = "sent"
    /\ LET w == reqWires[Len(reqWires)]
           from == Max(WireOfs(w), 1)
           left == Max(Len(lob) - from + 1, 0)
       IN  \E m \in 0..Min(WireChunkSize(w), left) :
              /\ m = 0 => left = 0
              /\ LET b == SubSeq(lob, from, from + m - 1)
                     e == [ID |-> FromLE(SubSeq(w, 1, 8)),
                           Opt |-> IF m = left THEN loDataincluded + loLastdata
                                   ELSE loDataincluded,
                           B |-> b]
                 IN  /\ served' = Append(served, b)
                     /\ inflight' = ReplyEntryWire(e)
    /\ rstate' = "replied"
    /\ UNCHANGED <<lob, rofs, reqWires, reply, received, assembled,
                   writeVars, codecVars, partsVars, writerVars>>

ReceiveReadLobReply ==
    /\ rstate = "replied"
    /\ LET d == ReadLobReply_decodeNumArg(reply, newDecoder(inflight), 1) IN
       /\ reply' = d.r
       /\ received' = Append(received, d.r.B)
       /\ assembled' = assembled \o d.r.B
       /\ rofs' = rofs + Len(d.r.B)
       /\ rstate' = IF IsLastData(d.r.Opt) THEN "done" ELSE "idle"
    /\ inflight' = <<>>
    /\ UNCHANGED <<lob, reqWires, served, writeVars, codecVars, partsVars, writerVars>>

NextRead == SendReadLobRequest \/ ServerReadLobReply \/ ReceiveReadLobReply

SpecRead == InitRead /\ [][NextRead]_vars

RECURSIVE TotalLen(_)
TotalLen(ss) == IF ss = <<>> THEN 0 ELSE Len(Head(ss)) + TotalLen(Tail(ss))

\* C9: the wire offset of every request is 1 plus the bytes received in all
\* earlier replies, the offsets strictly increase from request to request,
\* and the assembled bytes are the concatenation of the server's chunks.
C9_ReadLoop ==
    /\ \A i \in 1..Len(reqWires) :
           WireOfs(reqWires[i]) = 1 + TotalLen(SubSeq(received, 1, i - 1))
    /\ \A i \in 1..(Len(reqWires) - 1) :
           WireOfs(reqWires[i]) < WireOfs(reqWires[i + 1])
    /\ rstate \in {"idle", "sent", "done"} => assembled = Concat(served)
    /\ rstate = "done" => IsLastData(reply.Opt)

\* the loop ended after two chunks of different sizes
C9_Witness ==
    /\ rstate = "done"
    /\ Len(reqWires) = 2
    /\ Len(served[1]) = 2 /\ Len(served[2]) = 1
    /\ WireOfs(reqWires[2]) = 3
    /\ assembled = lob

\* ==================================================== part kind registry
\* the kinds of genPartTypeMap
RegistryKinds ==
    {"PkError", "PkClientID", "PkClientInfo", "PkTopologyInformation",
     "PkCommand", "PkRowsAffected", "PkStatementID", "PkResultsetID",
     "PkFetchSize", "PkReadLobRequest", "PkReadLobReply", "PkWriteLobReply",
     "PkWriteLobRequest", "PkClientContext", "PkConnectOptions",
     "PkTransactionFlags", "PkStatementContext", "PkDBConnectInfo"}

\* the kinds that need more than a type to be built
MetadataKinds ==
    {"PkParameterMetadata", "PkParameters", "PkOutputParameters",
     "PkResultMetadata", "PkResultset"}

\* every kind a part header may carry, one of them unknown to the driver
PartKinds ==
    RegistryKinds \cup MetadataKinds \cup {"PkAuthentication", "PkUnknown"}

genPartTypeMap ==
    "PkError" :> "HdbErrors" @@
    "PkClientID" :> "ClientID" @@
    "PkClientInfo" :> "clientInfo" @@
    "PkTopologyInformation" :> "topologyInformation" @@
    "PkCommand" :> "Command" @@
    "PkRowsAffected" :> "RowsAffected" @@
    "PkStatementID" :> "StatementID" @@
    "PkResultsetID" :> "ResultsetID" @@
    "PkFetchSize" :> "Fetchsize" @@
    "PkReadLobRequest" :> "ReadLobRequest" @@
    "PkReadLobReply" :> "ReadLobReply" @@
    "PkWriteLobReply" :> "WriteLobReply" @@
    "PkWriteLobRequest" :> "WriteLobRequest" @@
    "PkClientContext" :> "Options[ClientContextOption]" @@
    "PkConnectOptions" :> "Options[ConnectOption]" @@
    "PkTransactionFlags" :> "Options[transactionFlagType]" @@
    "PkStatementContext" :> "Options[statementContextType]" @@
    "PkDBConnectInfo" :> "Options[DBConnectInfoType]"

\* the kind methods declared in parts.go, by type
kindOf ==
    "HdbErrors" :> "PkError" @@
    "AuthInitRequest" :> "PkAuthentication" @@
    "AuthInitReply" :> "PkAuthentication" @@
    "AuthFinalRequest" :> "PkAuthentication" @@
    "AuthFinalReply" :> "PkAuthentication" @@
    "ClientID" :> "PkClientID" @@
    "clientInfo" :> "PkClientInfo" @@
    "topologyInformation" :> "PkTopologyInformation" @@
    "Command" :> "PkCommand" @@
    "RowsAffected" :> "PkRowsAffected" @@
    "StatementID" :> "PkStatementID" @@
    "ParameterMetadata" :> "PkParameterMetadata" @@
    "InputParameters" :> "PkParameters" @@
    "OutputParameters" :> "PkOutputParameters" @@
    "ResultMetadata" :> "PkResultMetadata" @@
    "ResultsetID" :> "PkResultsetID" @@
    "Resultset" :> "PkResultset" @@
    "Fetchsize" :> "PkFetchSize" @@
    "ReadLobRequest" :> "PkReadLobRequest" @@
    "ReadLobReply" :> "PkReadLobReply" @@
    "WriteLobRequest" :> "PkWriteLobRequest" @@
    "WriteLobReply" :> "PkWriteLobReply"

\* the types whose pointer the compile-time checks show to be a Part; the
\* check of one Options instance stands for all of them
ImplementsPart ==
    {"HdbErrors", "AuthInitRequest", "AuthInitReply", "AuthFinalRequest",
     "AuthFinalReply", "ClientID", "clientInfo", "topologyInformation",
     "Command", "RowsAffected", "StatementID", "ParameterMetadata",
     "InputParameters", "OutputParameters", "ResultMetadata", "ResultsetID",
     "Resultset", "Fetchsize", "ReadLobRequest", "WriteLobRequest",
     "ReadLobReply", "WriteLobReply", "Options[ClientContextOption]",
     "Options[ConnectOption]", "Options[transactionFlagType]",
     "Options[statementContextType]", "Options[DBConnectInfoType]"}

NoPart == [tag |-> "nil", addr |-> 0]

\* reflect.New(pt): a new zero value of pt at a new address
reflect_New(pt, h) ==
    [heap |-> Append(h, [type |-> pt, val |-> "zero"]), addr |-> Len(h) + 1]

\* newGenPartReader that panics for a kind the table does not hold
newGenPartReader_PanicUnknown(kind, h) ==
    IF kind = "PkAuthentication" THEN [res |-> NoPart, heap |-> h]
    ELSE IF kind \notin DOMAIN genPartTypeMap
    THEN [res |-> [tag |-> "panic", addr |-> 0], heap |-> h]
    ELSE LET n == reflect_New(genPartTypeMap[kind], h) IN
         IF genPartTypeMap[kind] \notin ImplementsPart
         THEN [res |-> [tag |-> "panic", addr |-> 0], heap |-> n.heap]
         ELSE [res |-> [tag |-> "part", addr |-> n.addr], heap |-> n.heap]

\* newGenPartReader that keeps one instance per type and hands it out again
newGenPartReader_Cached(kind, h) ==
    IF kind = "PkAuthentication" THEN [res |-> NoPart, heap |-> h]
    ELSE IF kind \notin DOMAIN genPartTypeMap THEN [res |-> NoPart, heap |-> h]
    ELSE LET have == {a \in 1..Len(h) : h[a].type = genPartTypeMap[kind]}
             n == reflect_New(genPartTypeMap[kind], h)
         IN  IF have # {}
             THEN [res |-> [tag |-> "part", addr |-> CHOOSE a \in have : TRUE],
                   heap |-> h]
             ELSE [res |-> [tag |-> "part", addr |-> n.addr], heap |-> n.heap]

\* newGenPartReader(kind): the part returned and the heap after the call
newGenPartReader(kind, h) ==
    IF kind = "PkAuthentication" THEN [res |-> NoPart, heap |-> h]
    ELSE IF kind \notin DOMAIN genPartTypeMap THEN [res |-> NoPart, heap |-> h]
    ELSE LET n == reflect_New(genPartTypeMap[kind], h) IN
         IF genPartTypeMap[kind] \notin ImplementsPart
         THEN [res |-> [tag |-> "panic", addr |-> 0], heap |-> n.heap]
         ELSE [res |-> [tag |-> "part", addr |-> n.addr], heap |-> n.heap]

InitParts ==
    /\ WriteIdle
    /\ CodecIdle
    /\ ReadIdle
    /\ WriterIdle
    /\ heap = <<>>
    /\ calls = <<>>
    /\ decodedInto = {}

\* the reader meets a part header of some kind
CallNewGenPartReader ==
    /\ Len(calls) < MaxCalls
    /\ \E k \in PartKinds :
          LET r == newGenPartReader(k, heap) IN
          /\ heap' = r.heap
          /\ calls' = Append(calls, [kind |-> k, res |-> r.res])
    /\ UNCHANGED <<decodedInto, writeVars, codecVars, readVars, writerVars>>

\* the part a call returned is decoded into
DecodeIntoPart ==
    /\ \E i \in 1..Len(calls) :
          /\ calls[i].res.tag = "part"
          /\ i \notin decodedInto
          /\ heap' = [heap EXCEPT ![calls[i].res.addr].val = "decoded"]
          /\ decodedInto' = decodedInto \cup {i}
    /\ UNCHANGED <<calls, writeVars, codecVars, readVars, writerVars>>

NextParts == CallNewGenPartReader \/ DecodeIntoPart

SpecParts == InitParts /\ [][NextParts]_vars

\* C11: newGenPartReader returns a new zero-valued part of the registered
\* type for every kind of the table, nothing for the authentication kind,
\* the metadata-dependent kinds and a kind the table does not know, and
\* panics for none.
C11_Registry ==
    \A i \in 1..Len(calls) :
        LET c == calls[i] IN
        /\ c.res.tag # "panic"
        /\ c.kind \in RegistryKinds =>
               /\ c.res.tag = "part"
               /\ c.res.addr \in 1..Len(heap)
               /\ heap[c.res.addr].type = genPartTypeMap[c.kind]
               /\ i \notin decodedInto => heap[c.res.addr].val = "zero"
        /\ c.kind \in {"PkAuthentication", "PkUnknown", "PkParameterMetadata",
                       "PkParameters", "PkOutputParameters",
                       "PkResultMetadata", "PkResultset"} =>
               c.res.tag = "nil"

\* a registered kind gave a part, an unknown kind gave nothing
C11_Witness ==
    /\ Len(calls) = 2
    /\ calls[1].kind = "PkConnectOptions" /\ calls[1].res.tag = "part"
    /\ heap[calls[1].res.addr].val = "zero"
    /\ calls[2].kind = "PkUnknown" /\ calls[2].res.tag = "nil"

\* C17: the part returned for a kind whose type declares its kind tag in
\* parts.go reports that kind, and two calls return two instances that
\* share no state: decoding into one leaves the other as it was.
C17_KindAndDistinct ==
    /\ \A i \in 1..Len(calls) :
           (calls[i].res.tag = "part"
              /\ heap[calls[i].res.addr].type \in DOMAIN kindOf) =>
               kindOf[heap[calls[i].res.addr].type] = calls[i].kind
    /\ \A i, j \in 1..Len(calls) :
           (i # j /\ calls[i].res.tag = "part" /\ calls[j].res.tag = "part") =>
               calls[i].res.addr # calls[j].res.addr
    /\ \A i \in 1..Len(calls) :
           calls[i].res.tag = "part" =>
               (heap[calls[i].res.addr].val = "decoded" <=> i \in decodedInto)

\* two calls for the same kind, the first part decoded into, the second not
C17_Witness ==
    /\ Len(calls) = 2
    /\ calls[1].kind = "PkReadLobReply" /\ calls[2].kind = "PkReadLobReply"
    /\ decodedInto = {1}
    /\ heap[calls[1].res.addr].val = "decoded"
    /\ heap[calls[2].res.addr].val = "zero"

\* ========================================================= message writer
WriteErrs == {"errA", "errB"}

\* (w *writer) LastWriteErr()
LastWriteErr(w) == w

\* lastErrorHandler that records every outcome
lastErrorHandler_Always(w, err) == [lastWriteErr |-> err, ret |-> err]

\* (w *writer) lastErrorHandler(err)
lastErrorHandler(w, err) ==
    [lastWriteErr |-> IF err # ErrNil THEN err ELSE w, ret |-> err]

InitWriter ==
    /\ WriteIdle
    /\ CodecIdle
    /\ ReadIdle
    /\ PartsIdle
    /\ lastWriteErr = ErrNil
    /\ outcomes = <<>>
    /\ handled = <<>>

\* one write ends, with or without an error, and goes through the handler
HandleWriteOutcome ==
    /\ Len(outcomes) < MaxWrites
    /\ \E err \in WriteErrs \cup {ErrNil} :
          LET h == lastErrorHandler(lastWriteErr, err) IN
          /\ lastWriteErr' = h.lastWriteErr
          /\ handled' = Append(handled, h.ret)
          /\ outcomes' = Append(outcomes, err)
    /\ UNCHANGED <<writeVars, codecVars, readVars, partsVars>>

NextWriter == HandleWriteOutcome

SpecWriter == InitWriter /\ [][NextWriter]_vars

\* the error of the last failed write of a history, nil when none failed
RECURSIVE LastFailure(_)
LastFailure(os) ==
    IF os = <<>> THEN ErrNil
    ELSE IF os[Len(os)] # ErrNil THEN os[Len(os)]
    ELSE LastFailure(SubSeq(os, 1, Len(os) - 1))

\* C12: LastWriteErr is the error of the most recent failed write, nil when
\* none failed; a successful write after a failure changes nothing, and the
\* handler returns every outcome as it got it.
C12_LastWriteErr ==
    /\ LastWriteErr(lastWriteErr) = LastFailure(outcomes)
    /\ handled = outcomes

\* two different failures, then a success: the second failure is kept
C12_Witness ==
    /\ outcomes = <<"errA", "errB", ErrNil>>
    /\ LastWriteErr(lastWriteErr) = "errB"
    /\ handled = outcomes

====
